---------------------------- MODULE Spec2Model ----------------------------
(***************************************************************************)
(* Model of src/src/simulation.py: the catastrophe agent TGCAgentV5 and    *)
(* the stress ramp of run_catastrophe_forcing_protocol.                    *)
(*                                                                         *)
(* Number format.  Real numbers are fixed-point integers.  For omega, the  *)
(* roots and the state x the integer k stands for the real k / Scale.  For *)
(* a drive E it stands for k / DriveScale: 1/398 is the common unit of the *)
(* whole drives a caller feeds and of the protocol's ramp, whose points    *)
(* are 8/199 = 16/398 apart.  A gain np.exp(x) is the pair <<m, n>>        *)
(* standing for (m / MantScale) * e^n with 1 <= m / MantScale < e; the     *)
(* pair Zero is 0.0 and the pair Inf is inf.                               *)
(*                                                                         *)
(* np.roots is modelled by the real roots of the cubic, each rounded to    *)
(* the nearest grid point, the rounding error of IEEE doubles left out.    *)
(* Two things of the solver are kept.  Its order: the real roots come by   *)
(* descending magnitude, the pair -sqrt(omega), +sqrt(omega) at E = 0 with *)
(* the negative one first.  And its error at a multiple root: a double     *)
(* root r comes as two real values, one just inside and one just outside   *)
(* r (for omega = 3.0, E = 2.0: -0.9999999844 and -1.0000000156), and the  *)
(* one outside passes the strict stability test; the triple root of        *)
(* omega = 0, E = 0 comes as 0.0 three times.  A root of the solver is     *)
(* therefore a pair <<k, side>>: the grid value k, and side = 0 for the    *)
(* root itself, +1 or -1 for a value just above or just below it.  The     *)
(* state and the lists an agent holds are grid values.                     *)
(*                                                                         *)
(* Spec is an agent under arbitrary calls of its two methods.  SpecSweep   *)
(* is an agent that a caller feeds a list of drives upward and then the    *)
(* same list downward.  SpecRamp is one agent of the protocol fed the      *)
(* protocol's ramp, SpecBatch the protocol's three agents fed that ramp    *)
(* in any interleaving.  SpecFar is an agent with omega = 0 fed drives so  *)
(* large that np.exp leaves the range of the doubles; there, and only      *)
(* there, a drive is a whole number.                                       *)
(*                                                                         *)
(* SpecThermo is the thermostatic learning agent.  Its code is not in      *)
(* src/; it is modelled from section 4.2 of the specification, in the same *)
(* fixed-point format (the temperature floor 0.01 is one grid unit).       *)
(***************************************************************************)
EXTENDS Integers, Sequences, FiniteSets

\* ------------------------------------------------------------- number format
Scale == 100
DriveScale == 398
MantScale == 1000000
ExpTerms == 12

\* np.exp(x) is 0.0 for x <= -745.14 and inf for x >= 709.79 (grid values).
UnderflowAt == -74514
OverflowAt == 70979

\* ------------------------------------------------------------------- inputs
\* omega is a multiple of 0.5, as the protocol's 0.5, 1.5 and 3.0 are; the drives
\* of a caller's free calls and sweeps are whole numbers.
OmegaStep == 50
DriveStep == 398

\* Bounds: omega <= MaxOmega steps, |E| <= MaxDrive steps in free calls and
\* <= MaxRamp steps in a sweep, at most MaxCalls update_state calls in Spec and
\* SpecFar, at most MaxBatchCalls drives fed to each agent of a batch.
MaxOmega == 6
MaxDrive == 2
MaxCalls == 3
MaxRamp == 3
MaxBatchCalls == 6
MaxTrials == 3

Omegas == { OmegaStep * j : j \in -1..MaxOmega }
Drives == { DriveStep * j : j \in -MaxDrive..MaxDrive }

VARIABLES
    omega,          \* self.omega
    x,              \* self.x
    x_history,      \* self.x_history
    beta_history,   \* self.beta_history
    last_call,      \* the last call: <<method, argument, returned value>>
    E_last,         \* the drive most recently applied (0 at construction)
    x_prev,         \* self.x as it was when the last update_state started
    roots_last,     \* stable_roots as the last update_state (or __init__) computed them
    initial_roots,  \* initial_roots of __init__
    E_sequence,     \* the protocol's drive sequence (empty outside the protocol)
    pos,            \* how many drives of E_sequence have been fed
    agents,         \* the protocol's list of agents (empty outside a batch run)
    thermo          \* the thermostatic learning agent (empty outside SpecThermo)

vars == <<omega, x, x_history, beta_history, last_call, E_last, x_prev, roots_last,
          initial_roots, E_sequence, pos, agents, thermo>>

\* ------------------------------------------------------------------ helpers
Abs(a) == IF a < 0 THEN -a ELSE a

Sign(a) == IF a < 0 THEN -1 ELSE IF a > 0 THEN 1 ELSE 0

SeqMax(s) == CHOOSE a \in { s[j] : j \in 1..Len(s) } : \A j \in 1..Len(s) : s[j] <= a

\* The sign of a - num / den, for den > 0.
SignAgainst(a, num, den) ==
    IF a > num \div den THEN 1
    ELSE IF a = num \div den /\ num % den = 0 THEN 0
    ELSE -1

\* --------------------------------------------------------- _get_stable_roots
\* The sign of x^3 - omega*x - E at x = k / Scale, for coeffs [1, 0, -omega, -E].
Poly(om, E, k) ==
    SignAgainst(k * k * k - om * Scale * k, E * Scale * Scale * Scale, DriveScale)

\* The sign of x^3 - omega*x - E at the cell midpoint x = (k + 1/2) / Scale.
PolyMid(om, E, k) ==
    LET num == E * Scale * Scale * Scale
    IN  SignAgainst((2 * k + 1) * (2 * k + 1) * (2 * k + 1)
                        - 4 * om * Scale * (2 * k + 1) - 8 * (num \div DriveScale),
                    8 * (num % DriveScale), DriveScale)

\* Every real root r has |r| <= 1 + max(|omega|, |E|).
RootBound(om, E) ==
    LET e == (Abs(E) * Scale) \div DriveScale + 1
    IN  Scale + (IF Abs(om) > e THEN Abs(om) ELSE e)

\* The grid value of the real root lying strictly inside the cell (k, k+1).
RoundRoot(om, E, k) == IF PolyMid(om, E, k) = Poly(om, E, k + 1) THEN k ELSE k + 1

\* The place of a root <<k, side>> in the solver's order: the larger comes first.
\* Of the two halves of a split double root the algebraically larger comes first,
\* whatever the sign of the drive.
SolverRank(E, p) ==
    4 * Abs(p[1])
      + (IF p[2] # 0 THEN (IF p[2] > 0 THEN 1 ELSE 0)
         ELSE IF E = 0 THEN (IF p[1] < 0 THEN 1 ELSE 0)
         ELSE IF Sign(p[1]) = Sign(E) THEN 1 ELSE 0)

\* The roots of the set S as the list the solver gives.
RECURSIVE SolverOrder(_, _)
SolverOrder(E, S) ==
    IF S = {} THEN << >>
    ELSE LET p == CHOOSE a \in S : \A b \in S : SolverRank(E, b) <= SolverRank(E, a)
         IN  <<p>> \o SolverOrder(E, S \ {p})

\* roots[np.isclose(roots.imag, 0)].real, as pairs <<grid value, side>>.
real_roots(om, E) ==
    LET B == RootBound(om, E)
        exact == { k \in -B..B : Poly(om, E, k) = 0 }
        cells == { k \in -B..(B - 1) : Poly(om, E, k) * Poly(om, E, k + 1) = -1 }
        simple == { <<RoundRoot(om, E, k), 0>> : k \in cells }
                    \cup { <<k, 0>> : k \in { j \in exact : 3 * j * j # om * Scale } }
        double == { k \in exact : 3 * k * k = om * Scale /\ k # 0 }
        split == { <<k, 1>> : k \in double } \cup { <<k, -1>> : k \in double }
    IN  IF 0 \in exact /\ om = 0
        THEN << <<0, 0>>, <<0, 0>>, <<0, 0>> >>
        ELSE SolverOrder(E, simple \cup split)

\* The stability test with the sign of omega slipped.
IsStable_plus(om, p) ==
    \/ 3 * p[1] * p[1] + om * Scale > 0
    \/ 3 * p[1] * p[1] + om * Scale = 0 /\ p[1] * p[2] > 0

\* 3 * r**2 - self.omega > 0 for the solver's root p: the sign of 3 k^2 - omega
\* and, where that is 0, the side of k the value lies on.
IsStable(om, p) ==
    \/ 3 * p[1] * p[1] - om * Scale > 0
    \/ 3 * p[1] * p[1] - om * Scale = 0 /\ p[1] * p[2] > 0

\* stable_roots, worked out from the coefficients: the grid values of the roots
\* that pass the test, in the solver's order.
stable_roots_of(om, E) ==
    LET kept == SelectSeq(real_roots(om, E), LAMBDA p : IsStable(om, p))
    IN  [ j \in 1..Len(kept) |-> kept[j][1] ]

\* ------------------------------------------------------ the protocol's inputs
\* np.linspace(start, stop, num), for end points that make the spacing a whole
\* number of drive units.
np_linspace(start, stop, num) ==
    [ j \in 1..num |-> start + ((j - 1) * (stop - start)) \div (num - 1) ]

\* E_ascending = np.linspace(-4.0, 4.0, 200)
E_ascending == np_linspace(-4 * DriveScale, 4 * DriveScale, 200)

\* E_descending = np.linspace(4.0, -4.0, 200)
E_descending == np_linspace(4 * DriveScale, -4 * DriveScale, 200)

\* The omega of the protocol's agents, in the order of the list: 0.5, 1.5, 3.0.
ProtocolOmegas == << OmegaStep, 3 * OmegaStep, 6 * OmegaStep >>

\* Every drive a caller of this model feeds in free calls and in sweeps.
AllDrives == Drives \cup { DriveStep * j : j \in -MaxRamp..MaxRamp }

\* stable_roots_of over the model's inputs, worked out once.
StableRootsTable ==
    { <<om, E, stable_roots_of(om, E)>> : om \in Omegas, E \in AllDrives }
      \cup { <<ProtocolOmegas[a], E_ascending[j],
               stable_roots_of(ProtocolOmegas[a], E_ascending[j])>> :
                 a \in 1..Len(ProtocolOmegas), j \in 1..Len(E_ascending) }

\* TGCAgentV5._get_stable_roots(E) of an agent with self.omega = om
get_stable_roots(om, E) == (CHOOSE t \in StableRootsTable : t[1] = om /\ t[2] = E)[3]

\* ---------------------------------------------------- drives far out of range
\* The drives of SpecFar: whole numbers, the cubes of FarRoots.
FarRoots == { -750, -746, -745, -1, 1, 709, 710 }

FarDrives == { c * c * c : c \in FarRoots }

\* Every real root of x^3 - E, for a whole-number drive |E| <= 10^9, is at most
\* 1000 in magnitude.
FarBound == 1000

\* roots[np.isclose(roots.imag, 0)].real for omega = 0 and the whole-number drive
\* E, a cube: the one real root of x^3 - E, in whole numbers.
far_real_roots(E) ==
    SolverOrder(E, { <<c, 0>> : c \in { d \in -FarBound..FarBound : d * d * d = E } })

\* stable_roots for omega = 0 and the whole-number drive E, as grid values.
far_stable_roots_of(E) ==
    LET kept == SelectSeq(far_real_roots(E), LAMBDA p : IsStable(0, p))
    IN  [ j \in 1..Len(kept) |-> kept[j][1] * Scale ]

\* far_stable_roots_of over the drives of SpecFar, worked out once.
FarRootsTable == { <<E, far_stable_roots_of(E)>> : E \in FarDrives }

\* TGCAgentV5._get_stable_roots(E) of an agent with self.omega = 0, E a whole number
far_get_stable_roots(E) == (CHOOSE t \in FarRootsTable : t[1] = E)[2]

\* --------------------------------------------------------------------- np.exp
\* The i-th term of the series of e^(f / Scale), times MantScale.
RECURSIVE ExpTerm(_, _)
ExpTerm(f, j) == IF j = 0 THEN MantScale ELSE (ExpTerm(f, j - 1) * f) \div (Scale * j)

RECURSIVE ExpSeries(_, _)
ExpSeries(f, j) == IF j = 0 THEN ExpTerm(f, 0) ELSE ExpSeries(f, j - 1) + ExpTerm(f, j)

\* The gains 0.0 and inf.
Zero == <<0, 0>>

Inf == <<MantScale, OverflowAt>>

\* np.exp(k / Scale) = e^n * e^(f / Scale), n the floor of k / Scale and 0 <= f < Scale;
\* 0.0 below the smallest double and inf above the largest.
np_exp(k) ==
    IF k <= UnderflowAt THEN Zero
    ELSE IF k >= OverflowAt THEN Inf
    ELSE <<ExpSeries(k % Scale, ExpTerms), k \div Scale>>

\* A gain <<m, n>> is a strictly positive real iff its mantissa is.
Positive(g) == g[1] > 0

\* ---------------------------------------------------------------- update_state
\* distances = [abs(r - self.x) for r in stable_roots]
distances(stable_roots, cur) == [ j \in 1..Len(stable_roots) |-> Abs(stable_roots[j] - cur) ]

\* np.argmin: the first index of a smallest entry (1-based here).
np_argmin(d) ==
    CHOOSE j \in 1..Len(d) :
        /\ \A m \in 1..Len(d) : d[j] <= d[m]
        /\ \A m \in 1..(j - 1) : d[m] > d[j]

\* new_x taking the largest stable root, whatever the current state.
new_x_largest(stable_roots, cur) ==
    IF Len(stable_roots) = 0 THEN cur ELSE SeqMax(stable_roots)

\* new_x of update_state: the fallback, or the nearest stable root.
new_x(stable_roots, cur) ==
    IF Len(stable_roots) = 0
    THEN cur
    ELSE stable_roots[np_argmin(distances(stable_roots, cur))]

\* initial_x taking the first root returned, the lowest branch.
initial_x_first(roots) == IF Len(roots) = 0 THEN 0 ELSE roots[1]

\* self.x of __init__: max(initial_roots) if initial_roots else 0.0
initial_x(roots) == IF Len(roots) = 0 THEN 0 ELSE SeqMax(roots)

\* TGCAgentV5.__init__(omega, name, color)
Construct(om) ==
    /\ omega = om
    /\ initial_roots = get_stable_roots(om, 0)
    /\ x = initial_x(initial_roots)
    /\ x_history = << >>
    /\ beta_history = << >>
    /\ last_call = <<"__init__", om, << >> >>
    /\ E_last = 0
    /\ x_prev = x
    /\ roots_last = initial_roots

\* Lines 42 to 57 of update_state, stable_roots being what line 40 computed, with
\* nothing recorded when there is no stable root.
select_and_record_early(stable_roots, E_t) ==
    LET nx == new_x(stable_roots, x)
        beta_t == np_exp(nx)
    IN  /\ x' = nx
        /\ x_history' = IF Len(stable_roots) = 0 THEN x_history ELSE Append(x_history, nx)
        /\ beta_history' =
               IF Len(stable_roots) = 0 THEN beta_history ELSE Append(beta_history, beta_t)
        /\ last_call' = <<"update_state", E_t, beta_t>>
        /\ E_last' = E_t
        /\ x_prev' = x
        /\ roots_last' = stable_roots
        /\ UNCHANGED <<omega, initial_roots>>

\* Lines 42 to 57 of update_state, stable_roots being what line 40 computed.
select_and_record(stable_roots, E_t) ==
    LET nx == new_x(stable_roots, x)
        beta_t == np_exp(nx)
    IN  /\ x' = nx
        /\ x_history' = Append(x_history, nx)
        /\ beta_history' = Append(beta_history, beta_t)
        /\ last_call' = <<"update_state", E_t, beta_t>>
        /\ E_last' = E_t
        /\ x_prev' = x
        /\ roots_last' = stable_roots
        /\ UNCHANGED <<omega, initial_roots>>

\* TGCAgentV5.update_state(E_t)
update_state(E_t) == select_and_record(get_stable_roots(omega, E_t), E_t)

\* TGCAgentV5.update_state(E_t) of an agent with omega = 0, E_t a whole number
update_state_far(E_t) == select_and_record(far_get_stable_roots(E_t), E_t)

\* _get_stable_roots leaving the largest root it found in self.x.
GetStableRoots_storing(E) ==
    /\ last_call' = <<"_get_stable_roots", E, get_stable_roots(omega, E)>>
    /\ x' = initial_x(get_stable_roots(omega, E))
    /\ UNCHANGED <<omega, x_history, beta_history, E_last, x_prev, roots_last,
                   initial_roots, E_sequence, pos, agents, thermo>>

\* A caller's call of TGCAgentV5._get_stable_roots(E)
GetStableRoots(E) ==
    /\ last_call' = <<"_get_stable_roots", E, get_stable_roots(omega, E)>>
    /\ UNCHANGED <<omega, x, x_history, beta_history, E_last, x_prev, roots_last,
                   initial_roots, E_sequence, pos, agents, thermo>>

\* A caller's call of TGCAgentV5.update_state(E), at most MaxCalls of them.
UpdateState(E) ==
    /\ Len(x_history) < MaxCalls
    /\ update_state(E)
    /\ UNCHANGED <<E_sequence, pos, agents, thermo>>

Init ==
    /\ \E om \in Omegas : Construct(om)
    /\ E_sequence = << >>
    /\ pos = 0
    /\ agents = << >>
    /\ thermo = << >>

Next ==
    \/ \E E \in Drives : UpdateState(E)
    \/ \E E \in Drives : GetStableRoots(E)

Spec == Init /\ [][Next]_vars

\* ------------------------------------------------------- drives far out of range
\* A caller's call of update_state(E) with a far drive, at most MaxCalls of them.
UpdateStateFar(E) ==
    /\ Len(x_history) < MaxCalls
    /\ update_state_far(E)
    /\ UNCHANGED <<E_sequence, pos, agents, thermo>>

InitFar ==
    /\ Construct(0)
    /\ E_sequence = << >>
    /\ pos = 0
    /\ agents = << >>
    /\ thermo = << >>

NextFar == \E E \in FarDrives : UpdateStateFar(E)

SpecFar == InitFar /\ [][NextFar]_vars

\* ----------------------------------------------------------- a caller's sweep
\* The whole drives from -a to a, upward and downward.
sweep_up(a) == [ j \in 1..(2 * a + 1) |-> DriveStep * (j - 1 - a) ]

sweep_down(a) == [ j \in 1..(2 * a + 1) |-> DriveStep * (a + 1 - j) ]

\* for E_t in E_sequence: agent.update_state(E_t), one drive per step
RampStep ==
    /\ pos < Len(E_sequence)
    /\ update_state(E_sequence[pos + 1])
    /\ pos' = pos + 1
    /\ UNCHANGED <<E_sequence, agents, thermo>>

InitSweep ==
    /\ \E om \in Omegas : Construct(om)
    /\ \E a \in 1..MaxRamp : E_sequence = sweep_up(a) \o sweep_down(a)
    /\ pos = 0
    /\ agents = << >>
    /\ thermo = << >>

NextSweep == RampStep

SpecSweep == InitSweep /\ [][NextSweep]_vars

\* ------------------------------------------ run_catastrophe_forcing_protocol
\* One agent of the list, and E_sequence = np.concatenate([E_ascending, E_descending]).
InitRamp ==
    /\ \E a \in 1..Len(ProtocolOmegas) : Construct(ProtocolOmegas[a])
    /\ E_sequence = E_ascending \o E_descending
    /\ pos = 0
    /\ agents = << >>
    /\ thermo = << >>

NextRamp == RampStep

SpecRamp == InitRamp /\ [][NextRamp]_vars

\* ------------------------------- the protocol's batch of agents, interleaved
\* An agent object of the list: its fields, and how many drives it has been fed.
\* name and color are only read by the plot.
NewAgent(om) ==
    [ omega |-> om,
      x |-> initial_x(get_stable_roots(om, 0)),
      x_history |-> << >>,
      beta_history |-> << >>,
      fed |-> 0 ]

\* agent.update_state(E_t) on an agent object of the list.
agent_update_state(ag, E_t) ==
    LET nx == new_x(get_stable_roots(ag.omega, E_t), ag.x)
    IN  [ ag EXCEPT !.x = nx,
                    !.x_history = Append(ag.x_history, nx),
                    !.beta_history = Append(ag.beta_history, np_exp(nx)),
                    !.fed = ag.fed + 1 ]

\* The protocol's agents: omega 0.5, 1.5 and 3.0.
ProtocolAgents == [ a \in 1..Len(ProtocolOmegas) |-> NewAgent(ProtocolOmegas[a]) ]

\* A step over a history list that all agents share: every agent sees the entry.
BatchStep_shared(a) ==
    /\ agents[a].fed < MaxBatchCalls
    /\ agents[a].fed < Len(E_sequence)
    /\ LET upd == agent_update_state(agents[a], E_sequence[agents[a].fed + 1])
       IN  agents' = [ b \in 1..Len(agents) |->
                         IF b = a THEN upd
                         ELSE [ agents[b] EXCEPT
                                  !.x_history = Append(agents[b].x_history, upd.x),
                                  !.beta_history =
                                      Append(agents[b].beta_history, np_exp(upd.x)) ] ]
    /\ UNCHANGED <<omega, x, x_history, beta_history, last_call, E_last, x_prev,
                   roots_last, initial_roots, E_sequence, pos, thermo>>

\* One agent.update_state(E_t) of the simulation loop, the agents taken in any
\* order: agent a is fed its next drive, each agent at most MaxBatchCalls drives.
BatchStep(a) ==
    /\ agents[a].fed < MaxBatchCalls
    /\ agents[a].fed < Len(E_sequence)
    /\ agents' = [ agents EXCEPT
                     ![a] = agent_update_state(agents[a], E_sequence[agents[a].fed + 1]) ]
    /\ UNCHANGED <<omega, x, x_history, beta_history, last_call, E_last, x_prev,
                   roots_last, initial_roots, E_sequence, pos, thermo>>

InitBatch ==
    /\ Construct(ProtocolOmegas[1])
    /\ E_sequence = E_ascending \o E_descending
    /\ pos = 0
    /\ agents = ProtocolAgents
    /\ thermo = << >>

NextBatch == \E a \in 1..Len(agents) : BatchStep(a)

SpecBatch == InitBatch /\ [][NextBatch]_vars

\* ------------------------------------------- the thermostatic learning agent
\* The temperature floor, 0.01.
TempFloor == 1

\* The configurations the agent is constructed with: learning rate > 0, cooling
\* rate in (0, 1], reheat threshold and amount of either sign, error decay in [0, 1),
\* initial temperature at or above the floor, static or adaptive.
LearningRates == { 50, 100, 150 }
CoolingRates == { 50, 100 }
ReheatThresholds == { -50, 50 }
ReheatAmounts == { -50, 50 }
ErrorDecays == { 0, 50 }
InitialTemperatures == { TempFloor, 100 }
Rewards == { 0, Scale }

\* The product of two fixed-point reals.
Mul(a, b) == (a * b) \div Scale

\* The agent as constructed; the action values start at 0.
NewThermo(lr, t0, cr, th, am, dc, st) ==
    [ learningRate |-> lr, coolingRate |-> cr, reheatThreshold |-> th,
      reheatAmount |-> am, errorDecay |-> dc, static |-> st, temperature0 |-> t0,
      actionValues |-> <<0, 0>>,
      temperature |-> t0,
      cumulativeError |-> 0,
      entropyHistory |-> << >>,
      action |-> 0,               \* the action selectAction returned; 0: none pending
      trials |-> 0,               \* the update calls made
      prevTemperature |-> t0,     \* the temperature when the last update started
      rewardsAllOne |-> TRUE ]    \* every reward so far was 1

\* The entropy of the softmax over the two action values at temperature t. It
\* is a function of |Q1 - Q2| / t alone, and is kept as that quotient's two terms.
Entropy(q, t) == << Abs(q[1] - q[2]), t >>

\* selectAction(), the sampled action being a.
thermo_selectAction(t, a) ==
    [ t EXCEPT !.entropyHistory = Append(t.entropyHistory, Entropy(t.actionValues, t.temperature)),
               !.action = a ]

\* The cooling step: if reward > 0, temperature = max(floor, temperature * coolingRate).
Cooled(t, reward) ==
    IF reward > 0
    THEN IF Mul(t.temperature, t.coolingRate) > TempFloor
         THEN Mul(t.temperature, t.coolingRate) ELSE TempFloor
    ELSE t.temperature

\* The integrator adding the magnitude of every prediction error.
Integrated_unsigned(t, predictionError) ==
    Mul(t.errorDecay, t.cumulativeError) + Abs(predictionError)

\* The leaky integrator: decay, plus |predictionError| when it is negative.
Integrated(t, predictionError) ==
    IF predictionError < 0
    THEN Mul(t.errorDecay, t.cumulativeError) + Abs(predictionError)
    ELSE Mul(t.errorDecay, t.cumulativeError)

\* update(action, reward) with the static flag ignored.
thermo_update_adaptive(t, a, reward) ==
    LET predictionError == reward - t.actionValues[a]
        q == [ t.actionValues EXCEPT ![a] = @ + Mul(t.learningRate, predictionError) ]
        cooled == Cooled(t, reward)
        ce == Integrated(t, predictionError)
        base == [ t EXCEPT !.actionValues = q, !.action = 0, !.trials = @ + 1,
                           !.prevTemperature = t.temperature,
                           !.rewardsAllOne = @ /\ reward = Scale ]
    IN  IF ce > t.reheatThreshold
        THEN [ base EXCEPT !.temperature = cooled + t.reheatAmount, !.cumulativeError = 0 ]
        ELSE [ base EXCEPT !.temperature = cooled, !.cumulativeError = ce ]

\* update(action, reward)
thermo_update(t, a, reward) ==
    LET predictionError == reward - t.actionValues[a]
        q == [ t.actionValues EXCEPT ![a] = @ + Mul(t.learningRate, predictionError) ]
        cooled == Cooled(t, reward)
        ce == Integrated(t, predictionError)
        base == [ t EXCEPT !.actionValues = q, !.action = 0, !.trials = @ + 1,
                           !.prevTemperature = t.temperature,
                           !.rewardsAllOne = @ /\ reward = Scale ]
    IN  IF t.static
        THEN base
        ELSE IF ce > t.reheatThreshold
             THEN [ base EXCEPT !.temperature = cooled + t.reheatAmount,
                                !.cumulativeError = 0 ]
             ELSE [ base EXCEPT !.temperature = cooled, !.cumulativeError = ce ]

\* The variables of the catastrophe agent and its protocol, untouched here.
catastrophe_vars ==
    <<omega, x, x_history, beta_history, last_call, E_last, x_prev, roots_last,
      initial_roots, E_sequence, pos, agents>>

\* A trial's selectAction call.
SelectAction(a) ==
    /\ thermo.action = 0
    /\ thermo.trials < MaxTrials
    /\ thermo' = thermo_selectAction(thermo, a)
    /\ UNCHANGED catastrophe_vars

\* The trial's update call, with the action selected and the reward it earned.
Update(reward) ==
    /\ thermo.action # 0
    /\ thermo' = thermo_update(thermo, thermo.action, reward)
    /\ UNCHANGED catastrophe_vars

InitThermo ==
    /\ Construct(OmegaStep)
    /\ E_sequence = << >>
    /\ pos = 0
    /\ agents = << >>
    /\ \E lr \in LearningRates, t0 \in InitialTemperatures, cr \in CoolingRates,
          th \in ReheatThresholds, am \in ReheatAmounts, dc \in ErrorDecays,
          st \in BOOLEAN :
            thermo = NewThermo(lr, t0, cr, th, am, dc, st)

NextThermo ==
    \/ \E a \in 1..2 : SelectAction(a)
    \/ \E reward \in Rewards : Update(reward)

SpecThermo == InitThermo /\ [][NextThermo]_vars

\* ===================================================================== claims
\* r is the grid value of a root of x^3 - om*x - E at which 3x^2 - om > 0: the cubic
\* rises through zero between r - 1/2 (included) and r + 1/2 (excluded).
StableRootAt(om, E, r) ==
    /\ 3 * r * r - om * Scale > 0
    /\ Poly(om, E, r - 1) < 0
    /\ Poly(om, E, r + 1) > 0
    /\ PolyMid(om, E, r - 1) <= 0
    /\ PolyMid(om, E, r) > 0

\* The stable roots of each omega and drive of the free calls and sweeps, as a set of
\* grid values, worked out once.
StableRootIndex ==
    { <<om, E, { r \in -RootBound(om, E)..RootBound(om, E) : StableRootAt(om, E, r) }>> :
        om \in Omegas, E \in AllDrives }

\* The stable roots of x^3 - om*x - E.
StableRoots(om, E) == (CHOOSE t \in StableRootIndex : t[1] = om /\ t[2] = E)[3]

\* Whether x^3 - om*x - E has a stable root at all.
HasStableRoot(om, E) == StableRoots(om, E) # {}

\* C1: after construction and after every update_state call, the state is a stable
\* root of the most recently applied drive (0 at construction); when that drive has
\* no stable root it is the state held before the call (at construction, where no
\* earlier state exists, the default 0.0).
C1_StateIsStableRootOrRetained ==
    IF HasStableRoot(omega, E_last)
    THEN x \in StableRoots(omega, E_last)
    ELSE IF Len(x_history) = 0 THEN x = 0 ELSE x = x_prev

\* C2: whenever the drive has a stable root, update_state sets the state to the
\* stable root nearest the previous state, and of equally near ones to the first in
\* the order returned.
C2_NearestStableRoot ==
    (last_call[1] = "update_state" /\ HasStableRoot(omega, E_last)) =>
        /\ x \in StableRoots(omega, E_last)
        /\ \A r \in StableRoots(omega, E_last) : Abs(x - x_prev) <= Abs(r - x_prev)
        /\ \E j \in 1..Len(roots_last) :
               /\ x = roots_last[j]
               /\ \A m \in 1..(j - 1) :
                      Abs(roots_last[m] - x_prev) > Abs(roots_last[j] - x_prev)

\* C3: for omega <= 0, every _get_stable_roots(E) call returns exactly one root.
C3_OneRootForNonPositiveOmega ==
    (last_call[1] = "_get_stable_roots" /\ omega <= 0) => Len(last_call[3]) = 1

\* The number of drives of one pass of the ramp.
PassLen == Len(E_sequence) \div 2

\* The ramp has been fed whole.
RampDone == Len(E_sequence) > 0 /\ pos = Len(E_sequence)

\* The state, or the gain, recorded at the j-th drive of the ascending pass differs
\* from the one recorded at the same drive on the descending pass.
StateDiffersAt(j) == x_history[j] # x_history[2 * PassLen + 1 - j]

GainDiffersAt(j) == beta_history[j] # beta_history[2 * PassLen + 1 - j]

\* C4: for omega <= 0, after a ramp up and back down, state and gain recorded at a
\* drive on the ascending pass equal those recorded at it on the descending pass.
C4_NoHysteresisForNonPositiveOmega ==
    (RampDone /\ omega <= 0) =>
        \A j \in 1..PassLen : ~StateDiffersAt(j) /\ ~GainDiffersAt(j)

\* The sign of |E| - E_crit, E_crit^2 = 4*omega^3/27, for omega a multiple of 0.5:
\* that of 54 E^2 - w^3 with E in whole drives and omega = w / 2.
CriticalSign(om, E) ==
    Sign(54 * E * E
           - (om \div OmegaStep) * (om \div OmegaStep) * (om \div OmegaStep)
               * DriveScale * DriveScale)

\* |E| < E_crit and |E| > E_crit.
BelowCritical(om, E) == CriticalSign(om, E) < 0

AboveCritical(om, E) == CriticalSign(om, E) > 0

\* C5: for omega > 0 and a ramp from below -E_crit to above +E_crit and back, some
\* drive strictly inside (-E_crit, E_crit), fed on both passes, has a different
\* state, and a different gain, on the ascending and on the descending pass.
C5_HysteresisForPositiveOmega ==
    (/\ RampDone
     /\ omega > 0
     /\ E_sequence[1] < 0 /\ AboveCritical(omega, E_sequence[1])
     /\ E_sequence[PassLen] > 0 /\ AboveCritical(omega, E_sequence[PassLen])) =>
        \E j \in 1..PassLen :
            /\ E_sequence[2 * PassLen + 1 - j] = E_sequence[j]
            /\ BelowCritical(omega, E_sequence[j])
            /\ StateDiffersAt(j)
            /\ GainDiffersAt(j)

\* C5 witness: the protocol's ramp has been fed whole to the agent with omega = 1.5,
\* and at a drive inside (-E_crit, E_crit) the ascending pass recorded the negative
\* branch and the descending pass the positive one.
C5_Witness ==
    /\ RampDone
    /\ omega = 3 * OmegaStep
    /\ Len(x_history) = 400
    /\ \E j \in 1..PassLen :
           /\ BelowCritical(omega, E_sequence[j])
           /\ E_sequence[2 * PassLen + 1 - j] = E_sequence[j]
           /\ x_history[j] < 0
           /\ x_history[2 * PassLen + 1 - j] > 0

\* C6: for omega > 0, _get_stable_roots(E) returns exactly two roots when
\* |E| < E_crit and exactly one when |E| > E_crit.
C6_RootCountByCriticalDrive ==
    (last_call[1] = "_get_stable_roots" /\ omega > 0) =>
        /\ BelowCritical(omega, last_call[2]) => Len(last_call[3]) = 2
        /\ AboveCritical(omega, last_call[2]) => Len(last_call[3]) = 1

\* C6 witness: a call with a nonzero drive below the critical one returned two roots.
C6_Witness ==
    /\ last_call[1] = "_get_stable_roots"
    /\ omega > 0
    /\ last_call[2] # 0
    /\ BelowCritical(omega, last_call[2])
    /\ Len(last_call[3]) = 2

\* C7: right after construction the state is the largest stable root of drive 0, or
\* 0.0 when there is none, and both histories are empty.
C7_InitialState ==
    (last_call[1] = "__init__") =>
        /\ x_history = << >>
        /\ beta_history = << >>
        /\ IF HasStableRoot(omega, 0)
           THEN /\ x \in StableRoots(omega, 0)
                /\ \A r \in StableRoots(omega, 0) : r <= x
           ELSE x = 0

\* C7 witness: an agent constructed with two stable roots at drive 0 holds the
\* positive one.
C7_Witness ==
    /\ last_call[1] = "__init__"
    /\ Len(initial_roots) = 2
    /\ x > 0

\* The step is an update_state call whose drive has no stable root.
FallbackStep == last_call'[1] = "update_state" /\ ~HasStableRoot(omega, last_call'[2])

\* C8, as claimed: an update_state call whose drive has no stable root changes
\* neither the state nor either history.
C8_FallbackChangesNothing ==
    [][FallbackStep => UNCHANGED <<x, x_history, beta_history>>]_vars

\* C8, amended: such a call keeps the state, and appends the kept state to
\* x_history and its gain to beta_history.
C8_FallbackKeepsStateAndRecords ==
    [][FallbackStep =>
          /\ x' = x
          /\ x_history' = Append(x_history, x)
          /\ beta_history' = Append(beta_history, np_exp(x))]_vars

\* C8 witness: the last call was a fallback that kept a nonzero state, recorded twice.
C8_Witness ==
    /\ last_call[1] = "update_state"
    /\ ~HasStableRoot(omega, last_call[2])
    /\ x # 0
    /\ Len(x_history) >= 2
    /\ x_history[Len(x_history)] = x_history[Len(x_history) - 1]

\* C9: every beta_history entry is exp of the x_history entry at its index and is
\* strictly positive, and an update_state call returns the entry it appended, exp
\* of the state after the call.
C9_GainIsExpOfState ==
    /\ Len(beta_history) = Len(x_history)
    /\ \A j \in 1..Len(x_history) :
           /\ beta_history[j] = np_exp(x_history[j])
           /\ Positive(beta_history[j])
    /\ last_call[1] = "update_state" =>
           /\ last_call[3] = beta_history[Len(beta_history)]
           /\ last_call[3] = np_exp(x)

\* C10: a _get_stable_roots call changes nothing of the agent, and returns for
\* drive 0 what the constructor's call returned, and for the drive of the last
\* update_state what that call computed, whatever the state has become since.
C10_GetStableRootsIsPure ==
    [][(last_call'[1] = "_get_stable_roots") =>
          /\ UNCHANGED <<omega, x, x_history, beta_history>>
          /\ last_call'[2] = 0 => last_call'[3] = initial_roots
          /\ last_call'[2] = E_last => last_call'[3] = roots_last]_vars

\* C10 witness: after two update_state calls that moved the state, a call for the
\* drive 0 returned the constructor's two roots.
C10_Witness ==
    /\ last_call = <<"_get_stable_roots", 0, initial_roots>>
    /\ Len(initial_roots) = 2
    /\ Len(x_history) >= 2
    /\ E_last # 0
    /\ x_history[1] # x_history[2]

\* The agent with stability factor om after being fed the first n drives of the
\* ramp on its own.
RECURSIVE RunAlone(_, _)
RunAlone(om, n) ==
    IF n = 0 THEN NewAgent(om)
    ELSE agent_update_state(RunAlone(om, n - 1), E_sequence[n])

\* C11: agents share no state: a step of one agent leaves every other agent as it
\* was, and in any interleaving each agent is, after its n-th drive, what it is
\* when the n drives are fed to it alone.
C11_AgentsAreIndependent ==
    /\ [](\A a \in 1..Len(agents) : agents[a] = RunAlone(ProtocolAgents[a].omega, agents[a].fed))
    /\ [][\A a \in 1..Len(agents) :
             agents'[a] # agents[a] =>
                 \A b \in 1..Len(agents) : b # a => agents'[b] = agents[b]]_vars

\* C11 witness: the second agent has been fed five drives that moved its state, the
\* third fewer, and the first has not started.
C11_Witness ==
    /\ Len(agents) = 3
    /\ agents[2].fed = 5
    /\ agents[2].x_history[1] # agents[2].x
    /\ agents[3].fed > 0
    /\ agents[3].fed < agents[2].fed
    /\ agents[3].x # agents[2].x_history[agents[3].fed]
    /\ agents[1].fed = 0

\* C15: for omega > 0 the agent sticks to its branch: a call whose drive has two
\* stable roots leaves the state on the stable root of the sign it had, and the sign
\* of the state changes only in a call whose drive has a single stable root, of the
\* opposite sign.
C15_SticksToBranch ==
    (last_call[1] = "update_state" /\ omega > 0) =>
        /\ x_prev # 0
        /\ Cardinality(StableRoots(omega, E_last)) = 2 =>
               /\ x \in StableRoots(omega, E_last)
               /\ Sign(x) = Sign(x_prev)
        /\ Sign(x) # Sign(x_prev) =>
               /\ StableRoots(omega, E_last) = {x}
               /\ Sign(x) = -Sign(x_prev)

\* C15 witness: the agent was pushed to the negative branch, stayed there through a
\* second call, and a third call with a single, positive root moved it up.
C15_Witness ==
    /\ last_call[1] = "update_state"
    /\ omega > 0
    /\ Len(x_history) = 3
    /\ x_history[1] < 0
    /\ x_history[2] < 0
    /\ x_history[1] # x_history[2]
    /\ x > 0
    /\ Len(roots_last) = 1

\* C16: both histories are append-only and in step with the calls: after n
\* update_state calls each has n entries, a call changes no earlier entry, and
\* the last x_history entry is the current state.
C16_HistoriesAppendOnly ==
    /\ [](/\ Len(x_history) = pos
          /\ Len(beta_history) = pos
          /\ pos > 0 => x_history[pos] = x)
    /\ [][/\ SubSeq(x_history', 1, Len(x_history)) = x_history
          /\ SubSeq(beta_history', 1, Len(beta_history)) = beta_history]_vars

\* C16 witness: a whole sweep has been fed to an agent with omega = 0, the fallback
\* calls at drive 0 included, and each history has one entry per drive.
C16_Witness ==
    /\ RampDone
    /\ omega = 0
    /\ Len(E_sequence) >= 6
    /\ Len(x_history) = Len(E_sequence)
    /\ Len(beta_history) = Len(E_sequence)
    /\ x_history[Len(x_history)] = x


\* C12: the thermostatic agent's temperature is at least the floor 0.01 in every
\* reachable state, whatever the rewards and the configuration.
C12_TemperatureAtLeastFloor == thermo.temperature >= TempFloor

\* The last call was an update.
AfterUpdate == thermo.trials > 0 /\ thermo.action = 0

\* Reward 1 on every trial so far, and the last update has left the temperature no
\* higher than it was and the integrator at 0.
CooledAndClean ==
    /\ thermo.temperature <= thermo.prevTemperature
    /\ thermo.cumulativeError = 0

\* C13, as claimed: with reward 1 on every trial, every update leaves the
\* temperature no higher than before and cumulativeError at 0.
C13_RewardOneCoolsOnly == (AfterUpdate /\ thermo.rewardsAllOne) => CooledAndClean

\* C13, amended: the same for an agent whose learning rate is at most 1 and whose
\* reheat threshold is not negative.
C13_RewardOneCoolsOnlyAmended ==
    (/\ AfterUpdate
     /\ thermo.rewardsAllOne
     /\ thermo.learningRate <= Scale
     /\ thermo.reheatThreshold >= 0) => CooledAndClean

\* C13 witness: an adaptive agent of such a configuration, three trials with
\* reward 1, and the temperature is below the initial one.
C13_Witness ==
    /\ AfterUpdate
    /\ thermo.rewardsAllOne
    /\ thermo.trials = 3
    /\ ~thermo.static
    /\ thermo.learningRate <= Scale
    /\ thermo.reheatThreshold >= 0
    /\ thermo.reheatAmount > 0
    /\ thermo.temperature < thermo.temperature0
    /\ thermo.actionValues # <<0, 0>>

\* The step is an update call of a static agent.
StaticUpdateStep == thermo.static /\ thermo.action # 0 /\ thermo'.action = 0

\* C14: an update of a static agent changes only the value of the action updated:
\* the temperature keeps its initial value and cumulativeError is not written.
C14_StaticUpdateFrame ==
    /\ [](thermo.static =>
             thermo.temperature = thermo.temperature0 /\ thermo.cumulativeError = 0)
    /\ [][StaticUpdateStep =>
             /\ thermo'.temperature = thermo.temperature
             /\ thermo'.cumulativeError = thermo.cumulativeError
             /\ thermo'.entropyHistory = thermo.entropyHistory
             /\ \A a \in 1..2 :
                    a # thermo.action => thermo'.actionValues[a] = thermo.actionValues[a]]_vars

\* C14 witness: a static agent after three updates, one with reward 1 and one
\* with a negative prediction error, its action values moved.
C14_Witness ==
    /\ thermo.static
    /\ thermo.trials = 3
    /\ thermo.action = 0
    /\ ~thermo.rewardsAllOne
    /\ thermo.actionValues[1] > 0
    /\ thermo.actionValues[1] < Scale
    /\ thermo.reheatThreshold < 0

=============================================================================
